---- MODULE Spec2Model ----
(***************************************************************************)
(* Model of the stock dashboard script (src/i.py).                         *)
(*                                                                         *)
(* Two specifications share the variables:                                 *)
(*   SpecCalc  applies the pure functions calculate_technical_indicators   *)
(*             and create_stock_chart to a bounded family of price series; *)
(*   Spec      is the script run of main(): the four cached fetchers, each *)
(*             as lookup, request in flight, st.error and store, indicator *)
(*             computation, metrics, chart, the overview and GitHub panels,*)
(*             the sleep-and-rerun auto refresh, the reruns a user causes, *)
(*             which drop a run at a st.* call, and the runs of other      *)
(*             sessions, which write the shared stores.                    *)
(*                                                                         *)
(* Arithmetic is exact.  A pandas float64 is modelled as NaN, +/-inf or a  *)
(* rational n/d in lowest terms; a value that went through a square root   *)
(* is n/d + s*sqrt(qn/qd).  Signed zeros and rounding are not modelled.    *)
(***************************************************************************)
EXTENDS Integers, Sequences, FiniteSets, TLC

VARIABLES
    pc,                \* position of the script run (Spec) or of the pipeline (SpecCalc)
    df,                \* the DataFrame held by the run, or None
    fig,               \* the figure built by create_stock_chart, or None
    selected_stock,    \* sidebar: symbol of the selected stock
    interval,          \* sidebar: "5min" or "daily"
    auto_refresh,      \* sidebar: Auto Refresh checkbox
    refresh_interval,  \* sidebar: Refresh Interval slider, seconds
    cache,             \* st.cache_data store of get_stock_data, per (symbol, interval)
    hour_cache,        \* st.cache_data stores of the overview and GitHub fetchers
    results,           \* overview, github_profile, github_repos of this run, by fetcher
    api,               \* what the overview and GitHub APIs answer, by fetcher
    response,          \* what the price API answered in this run ("cached": not asked)
    log,               \* calls made and elements shown by this run, in order
    fetches,           \* calls of get_stock_data made so far
    other_stores       \* results stored by other sessions so far

vars == <<pc, df, fig, selected_stock, interval, auto_refresh, refresh_interval,
          cache, hour_cache, results, api, response, log, fetches, other_stores>>

----------------------------------------------------------------------------
(* Bounds of the model *)

\* longest price series given to the pure functions
MaxLen == 25

\* period of the repeating close-to-close delta pattern of a generated series
PatLen == 3

----------------------------------------------------------------------------
(* Program constants *)

\* calculate_technical_indicators(df, window=20)
DefaultWindow == 20

\* rolling(window=14) of the RSI gain and loss averages
RsiPeriod == 14

\* rolling(window=20) of the Bollinger bands
BBWindow == 20

\* bb_std * 2
BBWidth == 2

\* pandas Rolling.std(ddof=1) default
DefaultDdof == 1

\* @st.cache_data(ttl=60)
CacheTTL == 60

----------------------------------------------------------------------------
(* float64 values, exact *)

RECURSIVE GCD(_, _)
GCD(a, b) == IF b = 0 THEN a ELSE GCD(b, a % b)

Abs(x) == IF x < 0 THEN -x ELSE x

Sign(x) == IF x < 0 THEN -1 ELSE IF x = 0 THEN 0 ELSE 1

NaN == [k |-> "nan", n |-> 0, d |-> 1]

Inf(s) == [k |-> "inf", n |-> s, d |-> 1]

\* the rational n/d (d # 0) in lowest terms with a positive denominator
Num(n, d) ==
    LET g == GCD(Abs(n), Abs(d))
        s == IF d < 0 THEN -1 ELSE 1
    IN [k |-> "num", n |-> (s * n) \div g, d |-> (s * d) \div g]

F(x) == Num(x, 1)

IsNaN(a) == a.k = "nan"

IsNum(a) == a.k = "num"

FNeg(a) ==
    CASE a.k = "nan" -> NaN
      [] a.k = "inf" -> Inf(-a.n)
      [] OTHER -> Num(-a.n, a.d)

FAdd(a, b) ==
    CASE a.k = "nan" \/ b.k = "nan" -> NaN
      [] a.k = "inf" /\ b.k = "inf" -> IF a.n = b.n THEN a ELSE NaN
      [] a.k = "inf" -> a
      [] b.k = "inf" -> b
      [] OTHER -> Num(a.n * b.d + b.n * a.d, a.d * b.d)

FSub(a, b) == FAdd(a, FNeg(b))

FMul(a, b) ==
    CASE a.k = "nan" \/ b.k = "nan" -> NaN
      [] a.k = "inf" \/ b.k = "inf" ->
            IF Sign(a.n) * Sign(b.n) = 0 THEN NaN ELSE Inf(Sign(a.n) * Sign(b.n))
      [] OTHER -> Num(a.n * b.n, a.d * b.d)

\* IEEE division: x/0 is +/-inf for x # 0 and NaN for x = 0; nothing is raised
FDiv(a, b) ==
    CASE a.k = "nan" \/ b.k = "nan" -> NaN
      [] a.k = "inf" /\ b.k = "inf" -> NaN
      [] a.k = "inf" -> Inf(IF b.n < 0 THEN -a.n ELSE a.n)
      [] b.k = "inf" -> F(0)
      [] b.n = 0 -> IF a.n = 0 THEN NaN ELSE Inf(Sign(a.n))
      [] OTHER -> Num(a.n * b.d, a.d * b.n)

\* comparisons; any comparison with NaN is false
FLt(a, b) ==
    CASE a.k = "nan" \/ b.k = "nan" -> FALSE
      [] a.k = "inf" /\ b.k = "inf" -> a.n < b.n
      [] a.k = "inf" -> a.n < 0
      [] b.k = "inf" -> b.n > 0
      [] OTHER -> a.n * b.d < b.n * a.d

FGt(a, b) == FLt(b, a)

FGe(a, b) == ~IsNaN(a) /\ ~IsNaN(b) /\ ~FLt(a, b)

FLe(a, b) == FGe(b, a)

RECURSIVE FSumRange(_, _, _)
\* s[lo] + ... + s[hi]; exact, so the order of the additions does not matter
FSumRange(s, lo, hi) ==
    IF hi < lo THEN F(0)
    ELSE IF hi = lo THEN s[lo]
    ELSE LET mid == (lo + hi) \div 2
         IN FAdd(FSumRange(s, lo, mid), FSumRange(s, mid + 1, hi))

FSum(s) == FSumRange(s, 1, Len(s))

\* a Series holds its values: the function f over 1..n as a sequence of values
Series(f) == SubSeq(f, 1, Len(f))

----------------------------------------------------------------------------
(* values that went through a square root: n/d + s*sqrt(qn/qd) *)

RECURSIVE Bisect(_, _, _)
Bisect(x, lo, hi) ==
    IF lo = hi THEN lo
    ELSE LET mid == (lo + hi + 1) \div 2
         IN IF mid * mid <= x THEN Bisect(x, mid, hi) ELSE Bisect(x, lo, mid - 1)

\* floor of the square root of a natural number below 2^31
ISqrt(x) == Bisect(x, 0, IF x < 46340 THEN x ELSE 46340)

IsSquare(x) == ISqrt(x) * ISqrt(x) = x

SNaN == [k |-> "nan", n |-> 0, d |-> 1, s |-> 0, qn |-> 0, qd |-> 1]

\* the value a + s*sqrt(q), a and q finite floats, q >= 0, s in {-1, 0, 1};
\* a rational square root is folded into the rational part
MkSurd(a, s, q) ==
    IF s = 0 \/ q.n = 0
    THEN [k |-> "num", n |-> a.n, d |-> a.d, s |-> 0, qn |-> 0, qd |-> 1]
    ELSE IF IsSquare(q.n) /\ IsSquare(q.d)
    THEN LET r == FAdd(a, Num(s * ISqrt(q.n), ISqrt(q.d)))
         IN [k |-> "num", n |-> r.n, d |-> r.d, s |-> 0, qn |-> 0, qd |-> 1]
    ELSE [k |-> "surd", n |-> a.n, d |-> a.d, s |-> s, qn |-> q.n, qd |-> q.d]

\* numpy sqrt of a variance (finite for finite prices); sqrt of a negative is NaN
FSqrt(a) == IF IsNum(a) /\ a.n >= 0 THEN MkSurd(F(0), 1, a) ELSE SNaN

\* x * c for a finite float c
SMul(x, c) ==
    IF x.k = "nan" \/ ~IsNum(c) THEN SNaN
    ELSE MkSurd(FMul(Num(x.n, x.d), c), x.s * Sign(c.n),
                FMul(Num(x.qn, x.qd), FMul(c, c)))

\* a + x and a - x for a float a
FAddS(a, x) ==
    IF x.k = "nan" \/ ~IsNum(a) THEN SNaN
    ELSE MkSurd(FAdd(a, Num(x.n, x.d)), x.s, Num(x.qn, x.qd))

FSubS(a, x) ==
    IF x.k = "nan" \/ ~IsNum(a) THEN SNaN
    ELSE MkSurd(FSub(a, Num(x.n, x.d)), -x.s, Num(x.qn, x.qd))

----------------------------------------------------------------------------
(* pandas Series operations used by calculate_technical_indicators *)

\* Series.diff(): the first element has no predecessor
Diff(s) == Series([i \in 1..Len(s) |-> IF i = 1 THEN NaN ELSE FSub(s[i], s[i - 1])])

\* delta.where(delta > 0, 0): keeps an element where the condition is true and
\* puts 0 elsewhere, also where the element is NaN (NaN > 0 is false)
WherePositive(s) == Series([i \in 1..Len(s) |-> IF FGt(s[i], F(0)) THEN s[i] ELSE F(0)])

\* delta.where(delta < 0, 0)
WhereNegative(s) == Series([i \in 1..Len(s) |-> IF FLt(s[i], F(0)) THEN s[i] ELSE F(0)])

Negate(s) == Series([i \in 1..Len(s) |-> FNeg(s[i])])

\* some observation of s[lo..hi] is missing
HasNaN(s, lo, hi) == \E j \in lo..hi : IsNaN(s[j])

\* RollingMean as rolling(window=w, min_periods=1) would compute it: the mean
\* of the observations there are, from the first element on
RollingMeanMinPeriods1(s, w) ==
    Series([i \in 1..Len(s) |->
        LET lo == IF i < w THEN 1 ELSE i - w + 1
        IN IF HasNaN(s, lo, i) THEN NaN
           ELSE FDiv(FSumRange(s, lo, i), F(i - lo + 1))])

\* Series.rolling(window=w).mean(): min_periods = w observations are required
RollingMean(s, w) ==
    Series([i \in 1..Len(s) |->
        IF i < w \/ HasNaN(s, i - w + 1, i) THEN NaN
        ELSE FDiv(FSumRange(s, i - w + 1, i), F(w))])

\* SumSqDev without the mean taken off: the sum of the squares
SumSqDevUncentred(s, lo, hi) ==
    FSum(Series([j \in 1..(hi - lo + 1) |-> FMul(s[lo + j - 1], s[lo + j - 1])]))

\* sum of squared deviations of s[lo..hi] from their mean
SumSqDev(s, lo, hi) ==
    LET m == FDiv(FSumRange(s, lo, hi), F(hi - lo + 1))
    IN FSum(Series([j \in 1..(hi - lo + 1) |->
                        FMul(FSub(s[lo + j - 1], m), FSub(s[lo + j - 1], m))]))

\* Series.rolling(window=w).std(ddof): sqrt(ssqdm / (nobs - ddof))
RollingStdDdof(s, w, ddof) ==
    Series([i \in 1..Len(s) |->
        IF i < w \/ HasNaN(s, i - w + 1, i) \/ w - ddof <= 0 THEN SNaN
        ELSE FSqrt(FDiv(SumSqDev(s, i - w + 1, i), F(w - ddof)))])

\* RollingStd as the population standard deviation, std(ddof=0)
RollingStdPopulation(s, w) == RollingStdDdof(s, w, 0)

RollingStd(s, w) == RollingStdDdof(s, w, DefaultDdof)

\* gain / loss, element by element
SeriesDiv(a, b) == Series([i \in 1..Len(a) |-> FDiv(a[i], b[i])])

\* RsiFromRs with the complement left out: 100 / (1 + rs)
RsiFromRsNoComplement(rs) == FDiv(F(100), FAdd(F(1), rs))

\* 100 - (100 / (1 + rs))
RsiFromRs(rs) == FSub(F(100), FDiv(F(100), FAdd(F(1), rs)))

----------------------------------------------------------------------------
(* DataFrames: a record of equally long columns; None is no DataFrame *)

None == [kind |-> "None"]

IsNone(x) == x = None

Rows(d) == Len(d.Index)

Columns(d) == DOMAIN d \ {"Index"}

\* DataFrame.empty: no rows or no columns
IsEmpty(d) == Rows(d) = 0 \/ Columns(d) = {}

\* calculate_technical_indicators(df, window)
CalcIndicators(d, window) ==
    LET close == d.Close
        delta == Diff(close)
        gain  == RollingMean(WherePositive(delta), RsiPeriod)
        loss  == RollingMean(Negate(WhereNegative(delta)), RsiPeriod)
        rs    == SeriesDiv(gain, loss)
        mid   == RollingMean(close, BBWindow)
        std   == RollingStd(close, BBWindow)
    IN [SMA       |-> RollingMean(close, window),
        RSI       |-> Series([i \in 1..Len(close) |-> RsiFromRs(rs[i])]),
        BB_Middle |-> mid,
        BB_Upper  |-> Series([i \in 1..Len(close) |->
                                  FAddS(mid[i], SMul(std[i], F(BBWidth)))]),
        BB_Lower  |-> Series([i \in 1..Len(close) |->
                                  FSubS(mid[i], SMul(std[i], F(BBWidth)))])]
       @@ d

calculate_technical_indicators(d) == CalcIndicators(d, DefaultWindow)

\* VolumeColor with a strict comparison: an unchanged price would be 'green'
VolumeColorStrict(open, close) == IF FGt(FSub(open, close), F(0)) THEN "red" ELSE "green"

\* colour of one volume bar: 'red' if row['Open'] - row['Close'] >= 0 else 'green'
VolumeColor(open, close) == IF FGe(FSub(open, close), F(0)) THEN "red" ELSE "green"

\* create_stock_chart(df, symbol): the traces of the three panels
create_stock_chart(d, symbol) ==
    [title  |-> symbol,
     x      |-> d.Index,
     candle |-> [open |-> d.Open, high |-> d.High, low |-> d.Low, close |-> d.Close],
     sma    |-> d.SMA,
     upper  |-> d.BB_Upper,
     lower  |-> d.BB_Lower,
     colors |-> Series([i \in 1..Rows(d) |-> VolumeColor(d.Open[i], d.Close[i])]),
     volume |-> d.Volume,
     rsi    |-> d.RSI,
     hlines |-> <<70, 30>>]

----------------------------------------------------------------------------
(* The bounded family of price series given to the pure functions *)

\* close-to-close moves and open-minus-close offsets of a generated point
Deltas == {-1, 0, 1}

OpenOffsets == {-5, 0, 5}

\* first close of a generated series
BasePrice == 100

DeltaPatterns == [1..PatLen -> Deltas]

\* points of a series open above, at and below their close in turn
OffsetCycle == <<1, 0, -1>>

RECURSIVE ClosesOf(_, _)
\* closes of n points: BasePrice, then the moves of pattern pat, repeated
ClosesOf(n, pat) ==
    IF n = 0 THEN <<>>
    ELSE IF n = 1 THEN <<BasePrice>>
    ELSE LET prev == ClosesOf(n - 1, pat)
         IN Append(prev, prev[n - 1] + pat[((n - 2) % PatLen) + 1])

Max(a, b) == IF a >= b THEN a ELSE b

Min(a, b) == IF a <= b THEN a ELSE b

\* a DataFrame as get_stock_data returns it: float columns, ascending index
MakeDf(n, pat, off) ==
    LET c == ClosesOf(n, pat)
        o == Series([i \in 1..n |-> c[i] + off * OffsetCycle[((i - 1) % 3) + 1]])
    IN [Index  |-> Series([i \in 1..n |-> i]),
        Open   |-> Series([i \in 1..n |-> F(o[i])]),
        High   |-> Series([i \in 1..n |-> F(Max(o[i], c[i]) + 1)]),
        Low    |-> Series([i \in 1..n |-> F(Min(o[i], c[i]) - 1)]),
        Close  |-> Series([i \in 1..n |-> F(c[i])]),
        Volume |-> Series([i \in 1..n |-> F(1000 * i)])]

InputFrames == {MakeDf(n, pat, off) : n \in 1..MaxLen, pat \in DeltaPatterns,
                                      off \in OpenOffsets}

----------------------------------------------------------------------------
(* SpecCalc: the pure pipeline, one series at a time *)

\* popular_stocks, bounded to its first entries
Symbols == {"AAPL"}

\* "5min" if time_frame == "Intraday (5min)" else "daily"
Intervals == {"5min", "daily"}

NoEntry == [present |-> FALSE, age |-> 0, value |-> None]

NoCache == [key \in Symbols \X Intervals |-> NoEntry]

\* get_github_profile("praneeth11-busi"), get_github_repos("praneeth11-busi")
GithubUser == "praneeth11-busi"

\* the fetchers cached for an hour
HourFetchers == {"get_stock_overview", "get_github_profile", "get_github_repos"}

\* the keys of their stores: function and argument
HourKeys ==
    {<<"get_stock_overview", s>> : s \in Symbols}
    \cup {<<"get_github_profile", GithubUser>>, <<"get_github_repos", GithubUser>>}

NoHourCache == [key \in HourKeys |-> NoEntry]

\* a local variable of main() that is not assigned yet
Unset == [kind |-> "unset"]

NoResults == [fn \in HourFetchers |-> Unset]

InitCalc ==
    /\ pc = "calc_input"
    /\ df \in InputFrames
    /\ fig = None
    /\ selected_stock = "AAPL"
    /\ interval = "5min"
    /\ auto_refresh = FALSE
    /\ refresh_interval = 60
    /\ cache = NoCache
    /\ hour_cache = NoHourCache
    /\ results = NoResults
    /\ api = NoResults
    /\ response = "given"
    /\ log = <<>>
    /\ fetches = 0
    /\ other_stores = 0

\* df = calculate_technical_indicators(df)
CalcStep ==
    /\ pc = "calc_input"
    /\ df' = calculate_technical_indicators(df)
    /\ pc' = "calc_done"
    /\ log' = Append(log, "calculate_technical_indicators")
    /\ UNCHANGED <<fig, selected_stock, interval, auto_refresh, refresh_interval,
                   cache, hour_cache, results, api, response, fetches, other_stores>>

\* fig = create_stock_chart(df, selected_stock)
ChartStep ==
    /\ pc = "calc_done"
    /\ fig' = create_stock_chart(df, selected_stock)
    /\ pc' = "chart_done"
    /\ log' = Append(log, "create_stock_chart")
    /\ UNCHANGED <<df, selected_stock, interval, auto_refresh, refresh_interval,
                   cache, hour_cache, results, api, response, fetches, other_stores>>

NextCalc == CalcStep \/ ChartStep

SpecCalc == InitCalc /\ [][NextCalc]_vars

----------------------------------------------------------------------------
(* Spec: the script run of main() *)

\* longest time series the price API answers with in Spec
MaxRows == 2

\* most calls of get_stock_data in one behaviour
MaxFetches == 2

\* most calls of get_stock_data in a behaviour in which the overview or a
\* GitHub API gives another answer than the nominal one
MaxFetchesOff == 1

\* most results other sessions store in one behaviour
MaxOtherStores == 1

\* longest repository list the GitHub API answers with
MaxRepos == 6

\* st.sidebar.slider("Refresh Interval (seconds)", 10, 300, 60)
SliderMin == 10

SliderMax == 300

SliderDefault == 60

\* @st.cache_data(ttl=3600) of get_stock_overview and the two GitHub fetchers
HourTTL == 3600

\* for repo in github_repos[:5]
MaxCards == 5

\* the slider's positions taken, of SliderMin..SliderMax
RefreshIntervals == {SliderMin, SliderDefault}

\* seconds between the end of a run and a rerun the user causes: at once,
\* after the price cache expired, after every cache expired
UserDelays == {0, CacheTTL, HourTTL}

\* the cells of one row of the API's time series
ApiCells == {"1. open", "2. high", "3. low", "4. close", "5. volume"}

\* df.columns = [col.split(" ")[1].capitalize() for col in df.columns]
ColumnName(cell) ==
    CASE cell = "1. open"   -> "Open"
      [] cell = "2. high"   -> "High"
      [] cell = "3. low"    -> "Low"
      [] cell = "4. close"  -> "Close"
      [] cell = "5. volume" -> "Volume"

\* the rows of frame d as the API lists them, the newest first, each with
\* the given cells only
RowsOfFrame(d, cells) ==
    [i \in 1..Rows(d) |->
        LET j == Rows(d) + 1 - i
        IN [ts |-> d.Index[j], cells |-> [c \in cells |-> d[ColumnName(c)][j]]]]

\* a rising series of n rows
RisingFrame(n) == MakeDf(n, [i \in 1..PatLen |-> 1], 5)

\* what requests.get(url) / response.json() may give for the price request:
\* a failure, a body that is no JSON, a note, no series, a cell that is no
\* number, a series of 1..MaxRows rows, and series whose rows lack a cell
Payloads ==
    {[kind |-> k, rows |-> <<>>] :
        k \in {"network_error", "not_json", "note", "empty", "bad_value"}}
    \cup {[kind |-> "data", rows |-> RowsOfFrame(RisingFrame(n), ApiCells)] : n \in 1..MaxRows}
    \cup {[kind |-> "no_close", rows |-> RowsOfFrame(RisingFrame(1), ApiCells \ {"4. close"})],
          [kind |-> "no_cells", rows |-> RowsOfFrame(RisingFrame(1), {})],
          [kind |-> "no_volume",
           rows |-> RowsOfFrame(RisingFrame(MaxRows), ApiCells \ {"5. volume"})],
          [kind |-> "no_open",
           rows |-> RowsOfFrame(RisingFrame(MaxRows), ApiCells \ {"1. open"})]}

\* df.sort_index(): the rows in ascending order of their timestamps
SortIndex(rows) ==
    [i \in 1..Len(rows) |->
        LET r == CHOOSE x \in 1..Len(rows) :
                    Cardinality({y \in 1..Len(rows) : rows[y].ts < rows[x].ts}) = i - 1
        IN rows[r]]

\* the body of get_stock_data: None (request or JSON failure, no time series,
\* a cell that is no number), else the DataFrame of the rows: one column per
\* cell the rows carry, whatever cells those are; rows without any cell give
\* a frame without rows and columns
FetchStockData(payload) ==
    IF payload.kind \in {"network_error", "not_json", "note", "empty", "bad_value"}
    THEN None
    ELSE LET r == SortIndex(payload.rows)
             cells == DOMAIN r[1].cells
             n == IF cells = {} THEN 0 ELSE Len(r)
         IN [col \in {"Index"} \cup {ColumnName(c) : c \in cells} |->
                IF col = "Index"
                THEN Series([i \in 1..n |-> r[i].ts])
                ELSE LET c == CHOOSE x \in cells : ColumnName(x) = col
                     IN Series([i \in 1..n |-> r[i].cells[c]])]

\* st.cache_data(ttl=60) with every stored entry served, whatever its age
CacheHitNoExpiry(entry) == entry.present

\* st.cache_data(ttl=60): an entry is served while it is younger than the TTL
CacheHit(entry) == entry.present /\ entry.age < CacheTTL

\* st.cache_data(ttl=3600)
HourHit(entry) == entry.present /\ entry.age < HourTTL

\* a store after e more seconds; an age of ttl stands for any older age
AgeCache(c, e, ttl) ==
    [key \in DOMAIN c |->
        IF c[key].present
        THEN [c[key] EXCEPT !.age = Min(ttl, c[key].age + e)]
        ELSE c[key]]

\* e seconds pass
Elapse(e) ==
    /\ cache' = AgeCache(cache, e, CacheTTL)
    /\ hour_cache' = AgeCache(hour_cache, e, HourTTL)

Log(entries) == log' = log \o entries

\* the log entries of a request and of an st.error made inside fetcher fn
Request(fn) == fn \o ":requests.get"

Error(fn) == fn \o ":st.error"

Widgets == <<selected_stock, interval, auto_refresh, refresh_interval>>

\* how a number of the overview is given: a numeric text (or left out, for
\* which the code takes 0), a text that is no number, null
NumberShapes == {"number", "text", "null"}

\* an overview object by the shapes of MarketCapitalization, 52WeekHigh and
\* 52WeekLow: all numbers, or one of them not
OverviewObjects ==
    {[kind |-> "object", cap |-> s[1], high |-> s[2], low |-> s[3]] :
        s \in {<<"number", "number", "number">>, <<"text", "number", "number">>,
               <<"null", "number", "number">>, <<"number", "text", "number">>,
               <<"number", "number", "null">>}}

\* what the overview request gives: an exception, an empty object or list, an
\* object with a Note, JSON that is no object, an object
OverviewAnswers ==
    {[kind |-> k] : k \in {"exception", "empty", "note", "not_object"}} \cup OverviewObjects

\* what the profile request gives
ProfileAnswers ==
    {[kind |-> k] : k \in {"exception", "not_200", "empty", "object", "not_object"}}

\* the fields of a repository item that a card reads, in the order read
RepoFields ==
    <<"name", "html_url", "description", "language", "stargazers_count", "forks_count",
      "updated_at">>

\* a repository item: complete ("ok"), or lacking one of the fields, or with
\* updated_at null
BadItems == {"null_updated_at"} \cup {"no_" \o RepoFields[i] : i \in DOMAIN RepoFields}

OkItems(n) == [i \in 1..n |-> "ok"]

\* the repository lists: none, one, MaxRepos complete items; one bad item;
\* a bad item behind MaxRepos - 1 complete ones, which no card shows
RepoLists ==
    {OkItems(0), OkItems(1), OkItems(MaxRepos)}
    \cup {<<b>> : b \in BadItems}
    \cup {Append(OkItems(MaxRepos - 1), "no_html_url")}

\* what the repositories request gives: an exception, a status other than
\* 200, an object (as GitHub's error bodies are), a list
ReposAnswers ==
    {[kind |-> k] : k \in {"exception", "not_200", "object"}}
    \cup {[kind |-> "list", items |-> l] : l \in RepoLists}

\* what the request of each fetcher cached for an hour may give
AnswersOf(fn) ==
    CASE fn = "get_stock_overview" -> OverviewAnswers
      [] fn = "get_github_profile" -> ProfileAnswers
      [] fn = "get_github_repos"   -> ReposAnswers

\* the answers of a complete overview, a profile and MaxRepos repositories
Nominal ==
    [fn \in HourFetchers |->
        CASE fn = "get_stock_overview" ->
                [kind |-> "object", cap |-> "number", high |-> "number", low |-> "number"]
          [] fn = "get_github_profile" -> [kind |-> "object"]
          [] fn = "get_github_repos"   -> [kind |-> "list", items |-> OkItems(MaxRepos)]]

\* the answers followed: those of Nominal, with any answer of one of the
\* three APIs in their place
ApiAnswers ==
    UNION {{[Nominal EXCEPT ![fn] = answer] : answer \in AnswersOf(fn)} :
              fn \in HourFetchers}

\* most calls of get_stock_data followed under the answers of this behaviour
FetchLimit == IF api = Nominal THEN MaxFetches ELSE MaxFetchesOff

\* the session's first run, with the widgets' defaults, on a server that has
\* just started: the stores are empty
Init ==
    /\ pc = "fetch"
    /\ df = None
    /\ fig = None
    /\ selected_stock = "AAPL"
    /\ interval = "5min"
    /\ auto_refresh = TRUE
    /\ refresh_interval = SliderDefault
    /\ cache = NoCache
    /\ hour_cache = NoHourCache
    /\ results = NoResults
    /\ api \in ApiAnswers
    /\ response = "none"
    /\ log = <<>>
    /\ fetches = 0
    /\ other_stores = 0

\* df = get_stock_data(selected_stock, interval), served from the cache
\* (st.error of a cached None is replayed)
FetchCached ==
    /\ pc = "fetch"
    /\ fetches < FetchLimit
    /\ CacheHit(cache[<<selected_stock, interval>>])
    /\ df' = cache[<<selected_stock, interval>>].value
    /\ response' = "cached"
    /\ Log(IF IsNone(df') THEN <<"get_stock_data", Error("get_stock_data")>>
           ELSE <<"get_stock_data">>)
    /\ fetches' = fetches + 1
    /\ pc' = "fetched"
    /\ UNCHANGED <<fig, Widgets, cache, hour_cache, results, api, other_stores>>

\* df = get_stock_data(selected_stock, interval), cache miss: the body starts
\* and blocks in requests.get(url)
FetchMiss ==
    /\ pc = "fetch"
    /\ fetches < FetchLimit
    /\ ~CacheHit(cache[<<selected_stock, interval>>])
    /\ Log(<<"get_stock_data", Request("get_stock_data")>>)
    /\ fetches' = fetches + 1
    /\ pc' = "request"
    /\ UNCHANGED <<df, fig, Widgets, cache, hour_cache, results, api, response,
                   other_stores>>

\* requests.get returns or raises, and the body runs up to its return or to
\* its st.error; nothing is stored yet
FetchAnswer ==
    /\ pc = "request"
    /\ \E payload \in Payloads :
          /\ df' = FetchStockData(payload)
          /\ response' = payload.kind
    /\ pc' = IF IsNone(df') THEN "st_error" ELSE "store"
    /\ UNCHANGED <<fig, Widgets, cache, hour_cache, results, api, log, fetches,
                   other_stores>>

\* st.error(f"Error fetching data ...") inside get_stock_data; return None
FetchError ==
    /\ pc = "st_error"
    /\ Log(<<Error("get_stock_data")>>)
    /\ pc' = "store"
    /\ UNCHANGED <<df, fig, Widgets, cache, hour_cache, results, api, response, fetches,
                   other_stores>>

\* st.cache_data stores what the body returned
FetchStore ==
    /\ pc = "store"
    /\ cache' = [cache EXCEPT ![<<selected_stock, interval>>] =
                    [present |-> TRUE, age |-> 0, value |-> df]]
    /\ pc' = "fetched"
    /\ UNCHANGED <<df, fig, Widgets, hour_cache, results, api, response, log, fetches,
                   other_stores>>

HasData(d) == ~IsNone(d) /\ ~IsEmpty(d)

\* if df is not None and not df.empty: df = calculate_technical_indicators(df);
\* df['Close'] of a frame without that column raises KeyError
Compute ==
    /\ pc = "fetched"
    /\ HasData(df)
    /\ IF "Close" \in Columns(df)
       THEN /\ df' = calculate_technical_indicators(df)
            /\ Log(<<"calculate_technical_indicators">>)
            /\ pc' = "metrics"
       ELSE /\ Log(<<"calculate_technical_indicators", "KeyError">>)
            /\ pc' = "crashed"
            /\ UNCHANGED df
    /\ UNCHANGED <<fig, Widgets, cache, hour_cache, results, api, response, fetches,
                   other_stores>>

\* else: st.warning("No data available ...")
NoData ==
    /\ pc = "fetched"
    /\ ~HasData(df)
    /\ Log(<<"st.warning">>)
    /\ pc' = "github"
    /\ UNCHANGED <<df, fig, Widgets, cache, hour_cache, results, api, response, fetches,
                   other_stores>>

\* latest = df.iloc[-1] and the four metrics; df.iloc[-2] of a one-row frame
\* raises IndexError after the first metric is shown, latest['Volume'] of a
\* frame without that column KeyError after the second
Metrics ==
    /\ pc = "metrics"
    /\ IF Rows(df) < 2
       THEN /\ Log(<<"metric.price", "IndexError">>)
            /\ pc' = "crashed"
       ELSE IF "Volume" \notin Columns(df)
       THEN /\ Log(<<"metric.price", "metric.change", "KeyError">>)
            /\ pc' = "crashed"
       ELSE /\ Log(<<"metric.price", "metric.change", "metric.volume", "metric.rsi">>)
            /\ pc' = "chart"
    /\ UNCHANGED <<df, fig, Widgets, cache, hour_cache, results, api, response, fetches,
                   other_stores>>

\* fig = create_stock_chart(df, selected_stock); df['Open'], df['High'],
\* df['Low'] of a frame without that column raise KeyError
Chart ==
    /\ pc = "chart"
    /\ IF {"Open", "High", "Low"} \subseteq Columns(df)
       THEN /\ fig' = create_stock_chart(df, selected_stock)
            /\ Log(<<"create_stock_chart">>)
            /\ pc' = "render"
       ELSE /\ Log(<<"create_stock_chart", "KeyError">>)
            /\ pc' = "crashed"
            /\ UNCHANGED fig
    /\ UNCHANGED <<df, Widgets, cache, hour_cache, results, api, response, fetches,
                   other_stores>>

\* st.plotly_chart(fig, use_container_width=True)
Render ==
    /\ pc = "render"
    /\ Log(<<"st.plotly_chart">>)
    /\ pc' = "overview"
    /\ UNCHANGED <<df, fig, Widgets, cache, hour_cache, results, api, response, fetches,
                   other_stores>>


\* the fetchers cached for an hour: where main() calls them and where it
\* goes on
HourTable ==
    {[fn |-> "get_stock_overview", at |-> "overview", next |-> "panel"],
     [fn |-> "get_github_profile", at |-> "profile", next |-> "repos"],
     [fn |-> "get_github_repos", at |-> "repos", next |-> "show_profile"]}

\* get_stock_overview(selected_stock), get_github_profile("praneeth11-busi"),
\* get_github_repos("praneeth11-busi")
HourKey(fn) ==
    IF fn = "get_stock_overview" THEN <<fn, selected_stock>> ELSE <<fn, GithubUser>>

\* what the body of such a fetcher returns: None after an exception or
\* (GitHub) a status other than 200, else response.json()
HourBody(answer) == IF answer.kind \in {"exception", "not_200"} THEN None ELSE answer

\* the call is served from the store (st.error of a stored None is replayed)
HourCached ==
    \E f \in HourTable :
        LET entry == hour_cache[HourKey(f.fn)]
        IN /\ pc = f.at
           /\ HourHit(entry)
           /\ results' = [results EXCEPT ![f.fn] = entry.value]
           /\ Log(IF IsNone(entry.value) THEN <<f.fn, Error(f.fn)>> ELSE <<f.fn>>)
           /\ pc' = f.next
           /\ UNCHANGED <<df, fig, Widgets, cache, hour_cache, api, response, fetches,
                          other_stores>>

\* the store has no entry younger than an hour: the body starts and blocks
\* in requests.get(url)
HourMiss ==
    \E f \in HourTable :
        /\ pc = f.at
        /\ ~HourHit(hour_cache[HourKey(f.fn)])
        /\ Log(<<f.fn, Request(f.fn)>>)
        /\ pc' = "request:" \o f.fn
        /\ UNCHANGED <<df, fig, Widgets, cache, hour_cache, results, api, response, fetches,
                       other_stores>>

\* requests.get returns or raises, and the body runs up to its return or to
\* its st.error; nothing is stored yet
HourAnswer ==
    \E f \in HourTable :
        /\ pc = "request:" \o f.fn
        /\ results' = [results EXCEPT ![f.fn] = HourBody(api[f.fn])]
        /\ pc' = (IF IsNone(results'[f.fn]) THEN "error:" ELSE "store:") \o f.fn
        /\ UNCHANGED <<df, fig, Widgets, cache, hour_cache, api, response, log, fetches,
                       other_stores>>

\* st.error(...) inside the fetcher; return None
HourError ==
    \E f \in HourTable :
        /\ pc = "error:" \o f.fn
        /\ Log(<<Error(f.fn)>>)
        /\ pc' = "store:" \o f.fn
        /\ UNCHANGED <<df, fig, Widgets, cache, hour_cache, results, api, response, fetches,
                       other_stores>>

\* st.cache_data stores what the body returned
HourStore ==
    \E f \in HourTable :
        /\ pc = "store:" \o f.fn
        /\ hour_cache' = [hour_cache EXCEPT ![HourKey(f.fn)] =
                             [present |-> TRUE, age |-> 0, value |-> results[f.fn]]]
        /\ pc' = f.next
        /\ UNCHANGED <<df, fig, Widgets, cache, results, api, response, log, fetches,
                       other_stores>>

\* the truth value of a returned JSON value or None
Truthy(v) ==
    /\ ~IsNone(v)
    /\ v.kind # "empty"
    /\ v.kind = "list" => v.items # <<>>

\* float(x) of a number given in this shape: "ok" or the exception raised
Float(shape) ==
    CASE shape = "number" -> "ok"
      [] shape = "text"   -> "ValueError"
      [] shape = "null"   -> "TypeError"

\* if overview and not overview.get("Note"): the three columns, else st.info.
\* The entries shown and whether the run goes on: overview.get of a value
\* that is no object raises AttributeError; float() raises after the heading
\* of its column is written
ShowOverview(overview) ==
    LET info    == [log |-> <<"st.info">>, ok |-> TRUE]
        col2    == <<"Company Overview", "Financial Metrics">>
        col3    == col2 \o <<"Performance">>
    IN IF ~Truthy(overview) THEN info
       ELSE IF overview.kind = "not_object"
       THEN [log |-> <<"AttributeError">>, ok |-> FALSE]
       ELSE IF overview.kind = "note" THEN info
       ELSE IF Float(overview.cap) # "ok"
       THEN [log |-> Append(col2, Float(overview.cap)), ok |-> FALSE]
       ELSE IF Float(overview.high) # "ok"
       THEN [log |-> Append(col3, Float(overview.high)), ok |-> FALSE]
       ELSE IF Float(overview.low) # "ok"
       THEN [log |-> Append(col3, Float(overview.low)), ok |-> FALSE]
       ELSE [log |-> col3, ok |-> TRUE]

\* the overview panel
OverviewPanel ==
    /\ pc = "panel"
    /\ LET panel == ShowOverview(results["get_stock_overview"])
       IN /\ Log(panel.log)
          /\ pc' = IF panel.ok THEN "raw" ELSE "crashed"
    /\ UNCHANGED <<df, fig, Widgets, cache, hour_cache, results, api, response, fetches,
                   other_stores>>

\* if st.checkbox("Show Raw Data"): st.dataframe(...)
RawData ==
    /\ pc = "raw"
    /\ \E show_raw \in BOOLEAN :
          Log(IF show_raw THEN <<"st.checkbox", "st.dataframe">> ELSE <<"st.checkbox">>)
    /\ pc' = "github"
    /\ UNCHANGED <<df, fig, Widgets, cache, hour_cache, results, api, response, fetches,
                   other_stores>>

\* the rule and the heading of the GitHub section
GitHub ==
    /\ pc = "github"
    /\ Log(<<"github_section">>)
    /\ pc' = "profile"
    /\ UNCHANGED <<df, fig, Widgets, cache, hour_cache, results, api, response, fetches,
                   other_stores>>

\* if github_profile: the profile's fields; .get of a value that is no object
\* raises AttributeError
ShowProfile(profile) ==
    IF ~Truthy(profile) THEN [log |-> <<>>, ok |-> TRUE]
    ELSE IF profile.kind = "not_object" THEN [log |-> <<"AttributeError">>, ok |-> FALSE]
    ELSE [log |-> <<"github_profile">>, ok |-> TRUE]

GithubProfile ==
    /\ pc = "show_profile"
    /\ LET profile == ShowProfile(results["get_github_profile"])
       IN /\ Log(profile.log)
          /\ pc' = IF profile.ok THEN "show_repos" ELSE "crashed"
    /\ UNCHANGED <<df, fig, Widgets, cache, hour_cache, results, api, response, fetches,
                   other_stores>>

\* the lines of a repository card: name and link, description, language
\* with stars and forks, date of the last update
CardLines == <<"repo.name", "repo.description", "repo.language", "repo.updated">>

\* the line of a card that reads the field
LineOf(field) ==
    CASE field \in {"name", "html_url"} -> 1
      [] field = "description" -> 2
      [] field \in {"language", "stargazers_count", "forks_count"} -> 3
      [] field = "updated_at" -> 4

\* one repository card: its lines, up to the one that raises.  repo[field]
\* of an item without the field raises KeyError, repo['updated_at'][:10] of
\* a null TypeError
Card(item) ==
    IF item = "ok" THEN [log |-> CardLines, ok |-> TRUE]
    ELSE IF item = "null_updated_at"
    THEN [log |-> SubSeq(CardLines, 1, 3) \o <<"TypeError">>, ok |-> FALSE]
    ELSE LET field == CHOOSE f \in {RepoFields[i] : i \in DOMAIN RepoFields} :
                         item = "no_" \o f
         IN [log |-> SubSeq(CardLines, 1, LineOf(field) - 1) \o <<"KeyError">>,
             ok |-> FALSE]

RECURSIVE Cards(_, _)
\* for repo in items[i:]: the cards, up to the one that raises
Cards(items, i) ==
    IF i > Len(items) THEN [log |-> <<>>, ok |-> TRUE]
    ELSE LET card == Card(items[i])
         IN IF ~card.ok THEN card
            ELSE LET rest == Cards(items, i + 1)
                 IN [log |-> card.log \o rest.log, ok |-> rest.ok]

\* if github_repos: the heading and a card for each of github_repos[:5].
\* Slicing an object raises slice_error: TypeError, or KeyError where slices
\* are hashable (Python 3.12)
ShowRepos(repos, slice_error) ==
    IF ~Truthy(repos) THEN [log |-> <<>>, ok |-> TRUE]
    ELSE IF repos.kind = "object"
    THEN [log |-> <<"Latest Repositories", slice_error>>, ok |-> FALSE]
    ELSE LET cards == Cards(SubSeq(repos.items, 1, Min(MaxCards, Len(repos.items))), 1)
         IN [log |-> <<"Latest Repositories">> \o cards.log, ok |-> cards.ok]

GithubRepos ==
    /\ pc = "show_repos"
    /\ \E slice_error \in {"TypeError", "KeyError"} :
          LET repos == ShowRepos(results["get_github_repos"], slice_error)
          IN /\ Log(repos.log)
             /\ pc' = IF repos.ok THEN "refresh" ELSE "crashed"
    /\ UNCHANGED <<df, fig, Widgets, cache, hour_cache, results, api, response, fetches,
                   other_stores>>

\* the markdown that closes the GitHub section, then
\* if auto_refresh: time.sleep(refresh_interval); otherwise the run ends
AutoRefresh ==
    /\ pc = "refresh"
    /\ IF auto_refresh
       THEN Log(<<"time.sleep">>) /\ pc' = "sleep"
       ELSE UNCHANGED log /\ pc' = "done"
    /\ UNCHANGED <<df, fig, Widgets, cache, hour_cache, results, api, response, fetches,
                   other_stores>>

\* the store is shared between sessions: at any time the run of another
\* session whose lookup missed stores what its own request gave, under any
\* key.  Only while this run computes a key does a call for that key wait
\* (st.cache_data computes one key once at a time) and store nothing
OtherSession ==
    /\ pc = "fetch" => fetches < FetchLimit
    /\ other_stores < MaxOtherStores
    /\ other_stores' = other_stores + 1
    /\ \/ /\ \E key \in DOMAIN cache, payload \in Payloads :
                /\ ~CacheHit(cache[key])
                /\ ~(pc \in {"request", "st_error", "store"}
                     /\ key = <<selected_stock, interval>>)
                /\ cache' = [cache EXCEPT ![key] =
                                [present |-> TRUE, age |-> 0,
                                 value |-> FetchStockData(payload)]]
          /\ UNCHANGED hour_cache
       \/ /\ \E f \in HourTable :
                /\ ~HourHit(hour_cache[HourKey(f.fn)])
                /\ pc \notin {"request:" \o f.fn, "error:" \o f.fn, "store:" \o f.fn}
                /\ hour_cache' = [hour_cache EXCEPT ![HourKey(f.fn)] =
                                     [present |-> TRUE, age |-> 0,
                                      value |-> HourBody(api[f.fn])]]
          /\ UNCHANGED cache
    /\ UNCHANGED <<pc, df, fig, Widgets, results, api, response, log, fetches>>

\* a new script run starts from the top of main()
NewRun ==
    /\ pc' = "fetch"
    /\ df' = None
    /\ fig' = None
    /\ results' = NoResults
    /\ response' = "none"
    /\ log' = <<>>
    /\ UNCHANGED <<api, fetches, other_stores>>

\* st.rerun() after the sleep of refresh_interval seconds
TimerRerun ==
    /\ pc = "sleep"
    /\ Elapse(refresh_interval)
    /\ NewRun
    /\ UNCHANGED Widgets

\* the positions at which the next thing the run does is a st.* call, where
\* Streamlit ends it when a rerun is pending.  These are all but the body of
\* a fetcher between its request and the store, and the sleep: every call
\* of a cached fetcher shows and clears a spinner, before the lookup and
\* after the store, a fetcher that fails calls st.error, and main() calls
\* st.* between any two other steps (after the repositories at the latest
\* the markdown that closes the GitHub section)
RerunPoints ==
    /\ pc \notin {"request", "store", "sleep", "done", "crashed"}
    /\ pc \notin {"request:" \o fn : fn \in HourFetchers}
    /\ pc \notin {"store:" \o fn : fn \in HourFetchers}

\* the user touches one sidebar widget (or none: a plain rerun)
WidgetTouches ==
    {w \in Symbols \X Intervals \X BOOLEAN \X RefreshIntervals :
        Cardinality({i \in 1..4 : w[i] # Widgets[i]}) <= 1}

\* a rerun the user causes.  A running script is dropped at its next st.*
\* call; a touch during time.sleep takes effect when the sleep returns; after
\* the script ended or failed any time may have passed
UserRerun ==
    /\ pc = "fetch" => fetches < FetchLimit
    /\ \/ RerunPoints /\ Elapse(0)
       \/ pc = "sleep" /\ Elapse(refresh_interval)
       \/ pc \in {"done", "crashed"} /\ \E e \in UserDelays : Elapse(e)
    /\ \E w \in WidgetTouches :
          /\ selected_stock' = w[1]
          /\ interval' = w[2]
          /\ auto_refresh' = w[3]
          /\ refresh_interval' = w[4]
    /\ NewRun

Next ==
    \/ FetchCached
    \/ FetchMiss
    \/ FetchAnswer
    \/ FetchError
    \/ FetchStore
    \/ Compute
    \/ NoData
    \/ Metrics
    \/ Chart
    \/ Render
    \/ HourCached
    \/ HourMiss
    \/ HourAnswer
    \/ HourError
    \/ HourStore
    \/ OverviewPanel
    \/ RawData
    \/ GitHub
    \/ GithubProfile
    \/ GithubRepos
    \/ AutoRefresh
    \/ OtherSession
    \/ TimerRerun
    \/ UserRerun

Spec == Init /\ [][Next]_vars

----------------------------------------------------------------------------
(* Properties of the pure functions, stated from the prices alone.         *)
(* Sequences are 1-based: index i of the program is position i + 1 here.   *)

Computed == pc \in {"calc_done", "chart_done"}

\* the close of row i; generated closes are whole numbers
Px(d, i) == d.Close[i].n

RECURSIVE SumPx(_, _, _)
SumPx(d, lo, hi) == IF hi < lo THEN 0 ELSE SumPx(d, lo, hi - 1) + Px(d, hi)

RECURSIVE SumPxSq(_, _, _)
SumPxSq(d, lo, hi) == IF hi < lo THEN 0 ELSE SumPxSq(d, lo, hi - 1) + Px(d, hi) * Px(d, hi)

StrictlyIncreasing(d) == \A i \in 2..Rows(d) : Px(d, i) > Px(d, i - 1)

StrictlyDecreasing(d) == \A i \in 2..Rows(d) : Px(d, i) < Px(d, i - 1)

ConstantCloses(d) == \A i \in 1..Rows(d) : Px(d, i) = Px(d, 1)

\* the value of a band equals the float a
BandEquals(x, a) == x.k = "num" /\ a.k = "num" /\ x.n = a.n /\ x.d = a.d

\* C1: for a series of at least 15 points with ascending closes the RSI is
\* absent at indices 0..13 and present at every index from 14 on.  Stated for
\* strictly increasing closes, which every reading of "ascending" covers.
C1_RsiAbsentFirst14 ==
    (Computed /\ Rows(df) >= RsiPeriod + 1 /\ StrictlyIncreasing(df)) =>
        /\ \A i \in 1..RsiPeriod : IsNaN(df.RSI[i])
        /\ \A i \in (RsiPeriod + 1)..Rows(df) : ~IsNaN(df.RSI[i])

\* C2: wherever the trailing 14-point average loss is zero (no close of the
\* window is below its predecessor), the RSI is 100, also when the average
\* gain is zero too.
C2_ZeroLossGivesRsi100 ==
    Computed =>
        \A i \in RsiPeriod..Rows(df) :
            (\A j \in (i - RsiPeriod + 1)..i : j = 1 \/ Px(df, j) >= Px(df, j - 1))
                => df.RSI[i] = F(100)

\* the Bollinger columns at row i >= 20 for a variance of the window equal to
\* (20 * sum of squares - square of the sum) / (20 * divisor)
BandsWithDivisor(d, i, divisor) ==
    LET lo   == i - BBWindow + 1
        sum  == SumPx(d, lo, i)
        sq   == SumPxSq(d, lo, i)
        mean == Num(sum, BBWindow)
        var4 == Num(BBWidth * BBWidth * (BBWindow * sq - sum * sum), BBWindow * divisor)
    IN /\ d.BB_Middle[i] = mean
       /\ d.BB_Upper[i] = MkSurd(mean, 1, var4)
       /\ d.BB_Lower[i] = MkSurd(mean, -1, var4)

BandsAbsentBefore(d) ==
    \A i \in 1..Min(BBWindow - 1, Rows(d)) :
        IsNaN(d.BB_Middle[i]) /\ d.BB_Upper[i] = SNaN /\ d.BB_Lower[i] = SNaN

\* C3 as claimed: the bands lie two POPULATION standard deviations (divisor
\* 20) from the 20-point mean, and are absent at indices 0..18.
C3_BandsPopulationStd ==
    Computed =>
        /\ BandsAbsentBefore(df)
        /\ \A i \in BBWindow..Rows(df) : BandsWithDivisor(df, i, BBWindow)

\* C3 as amended: the bands lie two SAMPLE standard deviations (divisor 19)
\* from the 20-point mean, and are absent at indices 0..18.
C3_BandsSampleStd ==
    Computed =>
        /\ BandsAbsentBefore(df)
        /\ \A i \in BBWindow..Rows(df) : BandsWithDivisor(df, i, BBWindow - 1)

\* a computed series whose first full window has a spread: the bands differ
C3_Witness ==
    /\ Computed
    /\ Rows(df) > BBWindow
    /\ df.BB_Upper[BBWindow].k = "surd"
    /\ df.BB_Upper[BBWindow] # df.BB_Lower[BBWindow]

\* C7: the SMA column is as long as the input, absent before index W - 1 and
\* the mean of the W trailing closes from there on; for closes 100..124 it is
\* 109.5 at index 19.
C7_SmaIsTrailingMean ==
    Computed =>
        /\ Len(df.SMA) = Rows(df)
        /\ \A i \in 1..Rows(df) :
              IF i < DefaultWindow THEN IsNaN(df.SMA[i])
              ELSE /\ IsNum(df.SMA[i])
                   /\ df.SMA[i].n * DefaultWindow
                        = df.SMA[i].d * SumPx(df, i - DefaultWindow + 1, i)
        /\ (Rows(df) = 25 /\ \A i \in 1..25 : Px(df, i) = 99 + i)
              => df.SMA[20] = Num(219, 2)

\* the closes 100, 101, ..., 124 with the SMA 109.5 at index 19
C7_Witness ==
    /\ Computed
    /\ Rows(df) = 25
    /\ \A i \in 1..25 : Px(df, i) = 99 + i
    /\ df.SMA[20] = Num(219, 2)
    /\ IsNaN(df.SMA[19])

\* C8: in a strictly increasing series the RSI is 100 at every index whose 14
\* trailing deltas are all gains (every index from 14 on), in a strictly
\* decreasing series it is 0 at every index whose 14 trailing deltas are all
\* losses, and in any series it is within 0..100 wherever it is defined.
C8_RsiMonotoneAndBounded ==
    Computed =>
        /\ StrictlyIncreasing(df) =>
              \A i \in (RsiPeriod + 1)..Rows(df) : df.RSI[i] = F(100)
        /\ StrictlyDecreasing(df) =>
              \A i \in (RsiPeriod + 1)..Rows(df) : df.RSI[i] = F(0)
        /\ \A i \in 1..Rows(df) :
              ~IsNaN(df.RSI[i]) =>
                  IsNum(df.RSI[i]) /\ FGe(df.RSI[i], F(0)) /\ FLe(df.RSI[i], F(100))

\* a strictly decreasing series with full windows of losses and RSI 0
C8_Witness ==
    /\ Computed
    /\ Rows(df) > RsiPeriod + 1
    /\ StrictlyDecreasing(df)
    /\ df.RSI[Rows(df)] = F(0)

\* C9: for constant closes the SMA is that constant wherever it is defined,
\* and the three Bollinger bands are that constant wherever they are defined.
C9_ConstantSeries ==
    (Computed /\ ConstantCloses(df)) =>
        \A i \in 1..Rows(df) :
            /\ ~IsNaN(df.SMA[i]) => df.SMA[i] = df.Close[1]
            /\ ~IsNaN(df.BB_Middle[i]) => df.BB_Middle[i] = df.Close[1]
            /\ df.BB_Upper[i] # SNaN => BandEquals(df.BB_Upper[i], df.Close[1])
            /\ df.BB_Lower[i] # SNaN => BandEquals(df.BB_Lower[i], df.Close[1])
            /\ i >= BBWindow => df.BB_Upper[i] # SNaN /\ df.BB_Lower[i] # SNaN
                                /\ ~IsNaN(df.SMA[i])

\* a constant series long enough for the bands, which are the constant
C9_Witness ==
    /\ Computed
    /\ Rows(df) > BBWindow
    /\ ConstantCloses(df)
    /\ BandEquals(df.BB_Upper[Rows(df)], F(BasePrice))
    /\ BandEquals(df.BB_Lower[Rows(df)], F(BasePrice))
    /\ df.SMA[Rows(df)] = F(BasePrice)

\* C10: the volume panel has one colour per point, in input order: red
\* exactly when open >= close, green exactly when open < close.
C10_VolumeColors ==
    pc = "chart_done" =>
        /\ Len(fig.colors) = Rows(df)
        /\ \A i \in 1..Rows(df) :
              /\ fig.colors[i] = "red" <=> df.Open[i].n >= df.Close[i].n
              /\ fig.colors[i] = "green" <=> df.Open[i].n < df.Close[i].n

\* a chart with the points (open 105, close 100), (open 100, close 105) and
\* one with open = close
C10_Witness ==
    /\ pc = "chart_done"
    /\ \E i \in 1..Rows(df) :
          df.Open[i] = F(105) /\ df.Close[i] = F(100) /\ fig.colors[i] = "red"
    /\ \E i \in 1..Rows(df) :
          df.Open[i] = F(100) /\ df.Close[i] = F(105) /\ fig.colors[i] = "green"
    /\ \E i \in 1..Rows(df) : df.Open[i] = df.Close[i] /\ fig.colors[i] = "red"

----------------------------------------------------------------------------
(* Properties of the script run *)

InLog(x) == \E i \in 1..Len(log) : log[i] = x

Count(x) == Cardinality({i \in 1..Len(log) : log[i] = x})

\* the HTTP request for prices and the st.error of get_stock_data, in the log
PriceRequest == Request("get_stock_data")

PriceError == Error("get_stock_data")

IsPipelineEvent(x) ==
    x \in {PriceRequest, "calculate_technical_indicators", "create_stock_chart",
           "st.plotly_chart"}

\* the price request, computation, chart assembly and render of this run, in order
Pipeline == SelectSeq(log, IsPipelineEvent)

\* C4: a run whose series has 1..19 points does not raise; it shows a message
\* about the shortage and goes on to the GitHub section and the refresh step.
C4_ShortSeriesHandled ==
    (pc \notin {"fetch", "request", "store", "fetched"} /\ HasData(df)
        /\ {"Open", "High", "Low", "Close", "Volume"} \subseteq Columns(df)
        /\ Rows(df) < BBWindow) =>
        /\ ~InLog("IndexError")
        /\ pc \in {"refresh", "sleep", "done"} => InLog("st.warning") \/ InLog(PriceError)

\* C5 as claimed, for the runs that render the chart: the run made one HTTP
\* price request, then one computation, one chart assembly and one render.
C5_OneRequestPerRun ==
    InLog("st.plotly_chart") =>
        Pipeline = <<PriceRequest, "calculate_technical_indicators",
                     "create_stock_chart", "st.plotly_chart">>

\* C5 as amended: a run calls get_stock_data once, after the sidebar; the call
\* makes no HTTP request when it is served from the store, which holds an
\* entry younger than 60 s for the selected (symbol, interval), and one
\* request otherwise, whose result is stored at age 0 when the call returns;
\* computation, chart assembly and render happen at most once, in that order,
\* after the fetch and only on data; a run that renders has done all three.
C5_AtMostOneRequestPerRun ==
    LET entry == cache[<<selected_stock, interval>>]
        steps == <<"calculate_technical_indicators", "create_stock_chart",
                   "st.plotly_chart">>
    IN /\ Count("get_stock_data") = (IF pc = "fetch" THEN 0 ELSE 1)
       /\ pc # "fetch" => log[1] = "get_stock_data"
       /\ Count(PriceRequest) = (IF pc = "fetch" \/ response = "cached" THEN 0 ELSE 1)
       /\ response = "cached" => entry.present /\ entry.age < CacheTTL
       /\ response # "cached" /\ pc # "fetch" =>
             /\ log[2] = PriceRequest
             /\ pc \notin {"request", "st_error", "store"} =>
                   entry.present /\ entry.age = 0
       /\ \E n \in 0..3 :
             Pipeline = (IF Count(PriceRequest) = 1 THEN <<PriceRequest>> ELSE <<>>)
                        \o SubSeq(steps, 1, n)
       /\ InLog("calculate_technical_indicators") => HasData(df)

\* a later run of the session, served from what its earlier run stored, that
\* rendered the chart and ended
C5_Witness ==
    /\ pc \in {"sleep", "done"}
    /\ fetches = 2
    /\ other_stores = 0
    /\ response = "cached"
    /\ Pipeline = <<"calculate_technical_indicators", "create_stock_chart",
                    "st.plotly_chart">>

\* the answers that carry no usable price series
BadResponses ==
    {"network_error", "not_json", "note", "empty", "bad_value", "no_close", "no_cells",
     "no_volume", "no_open"}

\* C6: after an empty, malformed, note or failed price response get_stock_data
\* returns None with an error shown; the run computes no indicators and
\* builds no chart, shows the no-data warning, no overview, has asked the
\* price API once, does not fail before the GitHub section and reaches it.
C6_BadResponseGivesNoData ==
    (response \in BadResponses /\ pc # "st_error") =>
        /\ IsNone(df)
        /\ InLog(PriceError)
        /\ ~InLog("calculate_technical_indicators")
        /\ ~InLog("create_stock_chart")
        /\ ~InLog("get_stock_overview")
        /\ Count(PriceRequest) = 1
        /\ pc = "crashed" => InLog("github_section")
        /\ pc \notin {"store", "fetched"} => InLog("st.warning")
        /\ pc \in {"refresh", "sleep", "done"} => InLog("github_section")

====
